---- MODULE Spec2Model ----
(***************************************************************************)
(* Grievance Resolver: the SLA monitoring / escalation cycle               *)
(* (src/src/workflows/monitoring_workflow.py) with the admin status        *)
(* update and the community urgency boost racing it, and the complaint     *)
(* pipeline (src/src/workflows/complaint_workflow.py).                     *)
(*                                                                         *)
(* Times and durations are counted in quarters of an hour (0.25 h is the   *)
(* smallest SLA the code assigns); the clock advances 12 hours at a time.  *)
(* The external text-completion service and the store are                  *)
(* nondeterministic: every answer the code accepts, and every failure it   *)
(* catches, is an input drawn with \E.                                     *)
(***************************************************************************)
EXTENDS Integers, Sequences, FiniteSets, TLC

VARIABLES
    now,            \* datetime.utcnow(), in quarter hours
    complaints,     \* the store's "complaints" table: id -> record
    escalations,    \* the store's "escalations" table, in creation order
    mpc,            \* the node the monitoring workflow runs next
    mstate,         \* MonitoringState carried through the monitoring workflow
    prevEscalated,  \* history: the complaints the last completed cycle escalated,
                    \* emptied as soon as time passes or anyone else writes the store
    pc,             \* the node the complaint workflow runs next
    state,          \* ComplaintState carried through the complaint workflow
    classified,     \* history: the urgency at the end of the classify node
    failures,       \* history: the nodes of this run whose service call or store
                    \* write failed
    response,       \* what ComplaintController.create_complaint answers the caller
    sentiment,      \* one call of SentimentAgent.process: its input and its result
    cyclelog,       \* history: what each complaint of the monitoring cycle met
                    \* (kept only by the specification of the cycle alone)
    cycles,         \* the monitoring cycles that run at the same time: for each
                    \* its next node and its MonitoringState
    slacall,        \* one call of the SLA stage: its input and its result
    mailbox         \* history: whether the complaint carries a citizen_email and
                    \* how many SLA-breach notifications were sent for it

\* the variables of the complaint workflow
pipeVars == <<pc, state, classified, failures, response>>

\* the variables of the agents exercised on their own
\* the variables of the single calls
callVars == <<sentiment, slacall, mailbox>>

agentVars == <<callVars, cyclelog, cycles>>

vars == <<now, complaints, escalations, mpc, mstate, prevEscalated,
          pc, state, classified, failures, response, sentiment, cyclelog, cycles,
          slacall, mailbox>>

----------------------------------------------------------------------------
(* Bounds of the model *)

MaxTime == 1
MaxEscalations == 2

----------------------------------------------------------------------------
(* Enumerations: src/src/models/schemas.py *)

ComplaintStatus == {"open", "in_progress", "escalated", "resolved", "closed"}

EscalationLevel == {"none", "level_1", "level_2", "level_3", "level_4"}

UrgencyLevel == {"low", "medium", "high", "urgent"}

\* what the decision service may put in "escalation_level": the five enum
\* values and a string outside the enum ("level_9")
ProposedLevels == EscalationLevel \cup {"level_9"}

LevelRank(l) ==
    CASE l = "none" -> 0
      [] l = "level_1" -> 1
      [] l = "level_2" -> 2
      [] l = "level_3" -> 3
      [] l = "level_4" -> 4
      [] OTHER -> 5

\* urgency_map of the sentiment node and of the community boost
urgency_map(u) ==
    CASE u = "low" -> 1
      [] u = "medium" -> 2
      [] u = "high" -> 3
      [] u = "urgent" -> 4
      [] OTHER -> 2

----------------------------------------------------------------------------
(* Helpers *)

\* every ordering of a finite set as a sequence (a select with no ORDER BY)
Orderings(S) ==
    {s \in [1..Cardinality(S) -> S] : \A i, j \in 1..Cardinality(S) : i # j => s[i] # s[j]}

\* h hours, and d days, in quarter hours
Hours(h) == 4 * h

InDays(d) == 96 * d

\* timedelta.days of a span of t quarter hours (t >= 0)
Days(t) == t \div 96

----------------------------------------------------------------------------
(* The store: src/src/models/database.py *)

\* days without update after which the monitoring agent calls an in_progress
\* complaint stale (monitoring.py: days_since_update > 7)
StaleDays == 7

\* days without update after which the follow-up agent picks a complaint
FollowupDays == 3

\* the ids of the complaints in the store
ComplaintIds == DOMAIN complaints

\* get_complaints_by_status orders by created_at, newest first
NewestFirst == SelectSeq(<<"c2", "c1">>, LAMBDA c : c \in ComplaintIds)

\* get_complaints_breaching_sla: sla_deadline < now, status neither resolved nor closed
BreachingSla ==
    {c \in ComplaintIds :
        /\ complaints[c].sla_deadline < now
        /\ complaints[c].status # "resolved"
        /\ complaints[c].status # "closed"}

\* get_complaints_by_status(status)
ComplaintsByStatus(status) ==
    SelectSeq(NewestFirst, LAMBDA c : complaints[c].status = status)

\* the table update of the store: the given fields are merged into the row
TableUpdate(complaint, updates) ==
    [f \in DOMAIN complaint |->
        IF f \in DOMAIN updates THEN updates[f] ELSE complaint[f]]

UpdateComplaintTouchingDeadline(complaint, updates) ==
    [TableUpdate(complaint, updates) EXCEPT !.updated_at = now, !.sla_deadline = now]

\* Database.update_complaint, when the store accepts it: updated_at is stamped
\* and the given fields are written; no other field is
UpdateComplaint(complaint, updates) ==
    [TableUpdate(complaint, updates) EXCEPT !.updated_at = now]

\* the Escalation records of one complaint, in creation order
EscalationsFor(c) ==
    SelectSeq(escalations, LAMBDA e : e.complaint_id = c)

----------------------------------------------------------------------------
(* MonitoringAgent: src/src/agents/monitoring.py *)

\* _find_stale_complaints: (now - updated_at).days > 7
FindStaleComplaints(in_progress) ==
    SelectSeq(in_progress, LAMBDA c : Days(now - complaints[c].updated_at) > StaleDays)

\* check_complaint_status: is_breaching_sla and hours_overdue (in quarter hours)
CheckComplaintStatus(c) ==
    LET is_breaching == now > complaints[c].sla_deadline
    IN  [is_breaching_sla |-> is_breaching,
         hours_overdue |-> IF is_breaching THEN now - complaints[c].sla_deadline ELSE 0]

\* check_complaint_status: whether send_sla_breach_notification is called
\* for the complaint, given whether it carries a citizen_email
SlaBreachNotification(c, citizen_email) ==
    /\ now > complaints[c].sla_deadline
    /\ citizen_email
    /\ complaints[c].status \notin {"resolved", "closed"}

\* FollowUpAgent.find_stale_complaints(days_without_update): updated_at < now - days
FollowupStale(days_without_update) ==
    {c \in ComplaintIds :
        /\ complaints[c].status = "in_progress"
        /\ complaints[c].updated_at < now - InDays(days_without_update)}

----------------------------------------------------------------------------
(* EscalationAgent: src/src/agents/escalation.py *)

\* what the decision service answers, once parsed
ParsedDecisions ==
    {[failed |-> FALSE, escalation_needed |-> FALSE, escalation_level |-> "none"]}
    \cup {[failed |-> FALSE, escalation_needed |-> TRUE, escalation_level |-> l]
             : l \in ProposedLevels}

\* per complaint: the parsed answer, or a failure (the call raised, the answer
\* held no JSON, or the complaint could not be read)
DecisionOutcomes ==
    ParsedDecisions
    \cup {[failed |-> TRUE, escalation_needed |-> FALSE, escalation_level |-> "none"]}

\* _escalate_with_llm after the answer is parsed
EscalateWithLlm(parsed, current_level) ==
    IF \/ ~parsed.escalation_needed
       \/ parsed.escalation_level = "none"
       \/ parsed.escalation_level = current_level
    THEN [escalation_needed |-> FALSE, escalation_level |-> current_level]
    ELSE [escalation_needed |-> TRUE, escalation_level |-> parsed.escalation_level]

----------------------------------------------------------------------------
(* MonitoringWorkflow: src/src/workflows/monitoring_workflow.py *)

\* run(): the initial MonitoringState
InitialMonitoringState ==
    [breaching_complaints |-> << >>,
     stale_complaints |-> << >>,
     escalated_complaints |-> << >>]

\* whether one iteration of the loop of _check_escalations reaches
\* escalation_agent.process: the complaint and its status are read, and the
\* agent is called if is_breaching_sla
DecisionInvoked(c, outcome) ==
    /\ ~outcome.failed
    /\ CheckComplaintStatus(c).is_breaching_sla

\* one iteration of the loop of _check_escalations
CheckOne(c, outcome) ==
    IF outcome.failed THEN << >>
    ELSE IF ~CheckComplaintStatus(c).is_breaching_sla THEN << >>
    ELSE LET escalation_result == EscalateWithLlm(outcome, complaints[c].escalation_level)
         IN  IF escalation_result.escalation_needed
             THEN <<[complaint_id |-> c,
                     escalation_level |-> escalation_result.escalation_level]>>
             ELSE << >>

RECURSIVE CheckAllStoppingAtFailure(_, _)
CheckAllStoppingAtFailure(all_complaints, outcomes) ==
    IF all_complaints = << >> THEN << >>
    ELSE IF Head(outcomes).failed THEN << >>
    ELSE CheckOne(Head(all_complaints), Head(outcomes))
         \o CheckAllStoppingAtFailure(Tail(all_complaints), Tail(outcomes))

\* the loop of _check_escalations: a failure ends the iteration it occurs in
RECURSIVE CheckAll(_, _)
CheckAll(all_complaints, outcomes) ==
    IF all_complaints = << >> THEN << >>
    ELSE CheckOne(Head(all_complaints), Head(outcomes))
         \o CheckAll(Tail(all_complaints), Tail(outcomes))

EscalationUpdatesInProgress(level) ==
    [status |-> "in_progress", escalation_level |-> level]

\* the fields _escalate_complaints writes onto the complaint
EscalationUpdates(level) ==
    [status |-> "escalated", escalation_level |-> level]

\* the loop of _escalate_complaints over a store (cs, es); results[i] is
\* "ok", "create_failed" (create_escalation raised: nothing is written) or
\* "update_failed" (the record is created, update_complaint returns None)
RECURSIVE EscalateAll(_, _, _, _)
EscalateAll(items, results, cs, es) ==
    IF items = << >> THEN [complaints |-> cs, escalations |-> es]
    ELSE LET it == Head(items)
             r == Head(results)
             es2 == IF r = "create_failed" THEN es
                    ELSE Append(es, [complaint_id |-> it.complaint_id,
                                     escalation_level |-> it.escalation_level])
             cs2 == IF r = "ok"
                    THEN [cs EXCEPT ![it.complaint_id] =
                            UpdateComplaint(@, EscalationUpdates(it.escalation_level))]
                    ELSE cs
         IN  EscalateAll(Tail(items), Tail(results), cs2, es2)

EscalateResults == {"ok", "create_failed", "update_failed"}

\* _monitor_complaints when the scan for breaches yields the given list and
\* the scan for stale complaints succeeds or not
MonitorComplaintsWith(breaching, stale_ok) ==
    /\ mpc = "monitor"
    /\ mstate' = [InitialMonitoringState EXCEPT
                    !.breaching_complaints = breaching,
                    !.stale_complaints =
                        IF stale_ok
                        THEN FindStaleComplaints(ComplaintsByStatus("in_progress"))
                        ELSE << >>]
    /\ mpc' = "followup"
    /\ UNCHANGED <<callVars, cycles, now, complaints, escalations, prevEscalated, pipeVars>>

\* node "monitor": _monitor_complaints.  Either scan of the store may fail
\* and then yields the empty list.
MonitorComplaints ==
    /\ \E breach_ok, stale_ok \in BOOLEAN :
       \E breaching \in Orderings(IF breach_ok THEN BreachingSla ELSE {}) :
          MonitorComplaintsWith(breaching, stale_ok)
    /\ UNCHANGED cyclelog

\* _followup_stale when find_stale_complaints yields the given selection and
\* the store accepts the stamp of the complaints in stamped
FollowupStaleWith(selected, stamped) ==
    /\ mpc = "followup"
    /\ stamped \subseteq selected
    /\ complaints' = [c \in ComplaintIds |->
                        IF c \in stamped
                        THEN UpdateComplaint(complaints[c], [last_followup_at |-> now])
                        ELSE complaints[c]]
    /\ mpc' = "check_escalation"
    /\ UNCHANGED <<callVars, cycles, now, escalations, mstate, prevEscalated, pipeVars>>

\* node "followup": _followup_stale.  find_stale_complaints yields the empty
\* list when it fails; the stamp of a selected complaint is written unless
\* the store refuses it (stamped is the set it accepts).
FollowupStaleNode ==
    /\ \E find_ok \in BOOLEAN :
       \E stamped \in SUBSET (IF find_ok THEN FollowupStale(FollowupDays) ELSE {}) :
          FollowupStaleWith(IF find_ok THEN FollowupStale(FollowupDays) ELSE {}, stamped)
    /\ UNCHANGED cyclelog

\* the list the loop of _check_escalations runs over
AllComplaints == mstate.breaching_complaints \o mstate.stale_complaints

\* _check_escalations when the complaints meet the given outcomes
CheckEscalationsWith(outcomes) ==
    /\ mpc = "check_escalation"
    /\ LET escalated == CheckAll(AllComplaints, outcomes)
       IN  /\ Len(escalations) + Len(escalated) <= MaxEscalations
           /\ mstate' = [mstate EXCEPT !.escalated_complaints = escalated]
    /\ mpc' = "escalate"
    /\ UNCHANGED <<sentiment, slacall, cycles, now, complaints, escalations,
                   prevEscalated, pipeVars>>

\* node "check_escalation": _check_escalations
CheckEscalations ==
    /\ \E outcomes \in [1..Len(AllComplaints) -> DecisionOutcomes] :
          CheckEscalationsWith(outcomes)
    /\ UNCHANGED <<cyclelog, mailbox>>

\* _escalate_complaints when the writes meet the given results
EscalateComplaintsWith(results) ==
    /\ mpc = "escalate"
    /\ LET store == EscalateAll(mstate.escalated_complaints, results,
                                complaints, escalations)
       IN  /\ complaints' = store.complaints
           /\ escalations' = store.escalations
    /\ mpc' = "notify"
    /\ UNCHANGED <<callVars, cycles, now, mstate, prevEscalated, pipeVars>>

\* node "escalate": _escalate_complaints
EscalateComplaints ==
    /\ \E results \in [1..Len(mstate.escalated_complaints) -> EscalateResults] :
          EscalateComplaintsWith(results)
    /\ UNCHANGED cyclelog

\* what one iteration of the loop of _notify_citizens meets: the message is
\* built (the mails that follow go out or raise, which changes no state), or
\* the complaint cannot be read or the message cannot be built
NotifyResults == {"built", "failed"}

\* state["notifications_sent"] at the end of _notify_citizens: an entry is
\* appended once the message is built, before the mails
RECURSIVE NotifyAll(_, _)
NotifyAll(items, results) ==
    IF items = << >> THEN << >>
    ELSE (IF Head(results) = "failed" THEN << >> ELSE <<Head(items).complaint_id>>)
         \o NotifyAll(Tail(items), Tail(results))

\* node "notify": _notify_citizens, then END: the cycle is complete
NotifyCitizens ==
    /\ mpc = "notify"
    /\ mpc' = "monitor"
    /\ mstate' = InitialMonitoringState
    /\ prevEscalated' =
          {c \in ComplaintIds :
              \E i \in DOMAIN mstate.escalated_complaints :
                  /\ mstate.escalated_complaints[i].complaint_id = c
                  /\ complaints[c].status = "escalated"
                  /\ complaints[c].escalation_level =
                        mstate.escalated_complaints[i].escalation_level}
    /\ UNCHANGED <<agentVars, now, complaints, escalations, pipeVars>>

----------------------------------------------------------------------------
(* Two monitoring cycles at the same time (two requests to                 *)
(* POST /api/monitoring/run served by two worker processes): each runs the *)
(* five nodes once on its own MonitoringState; the nodes of the two        *)
(* interleave and share the store.                                         *)

ConcurrentCycles == {"A", "B"}

NoCycles == [k \in {} |-> 0]

\* node "monitor" of cycle k
MonitorComplaintsOf(k) ==
    /\ cycles[k].mpc = "monitor"
    /\ \E breach_ok, stale_ok \in BOOLEAN :
       \E breaching \in Orderings(IF breach_ok THEN BreachingSla ELSE {}) :
          cycles' = [cycles EXCEPT ![k] =
             [mpc |-> "followup",
              mstate |-> [InitialMonitoringState EXCEPT
                            !.breaching_complaints = breaching,
                            !.stale_complaints =
                                IF stale_ok
                                THEN FindStaleComplaints(ComplaintsByStatus("in_progress"))
                                ELSE << >>]]]
    /\ UNCHANGED <<callVars, cyclelog, now, complaints, escalations, mpc, mstate,
                   prevEscalated, pipeVars>>

\* node "followup" of cycle k
FollowupStaleOf(k) ==
    /\ cycles[k].mpc = "followup"
    /\ \E stamped \in SUBSET FollowupStale(FollowupDays) :
          complaints' = [c \in ComplaintIds |->
                            IF c \in stamped
                            THEN UpdateComplaint(complaints[c], [last_followup_at |-> now])
                            ELSE complaints[c]]
    /\ cycles' = [cycles EXCEPT ![k].mpc = "check_escalation"]
    /\ UNCHANGED <<callVars, cyclelog, now, escalations, mpc, mstate,
                   prevEscalated, pipeVars>>

\* node "check_escalation" of cycle k
CheckEscalationsOf(k) ==
    /\ cycles[k].mpc = "check_escalation"
    /\ LET all_complaints == cycles[k].mstate.breaching_complaints
                                \o cycles[k].mstate.stale_complaints
       IN  \E outcomes \in [1..Len(all_complaints) -> DecisionOutcomes] :
              LET escalated == CheckAll(all_complaints, outcomes)
              IN  /\ Len(escalations) + Len(escalated) <= MaxEscalations
                  /\ cycles' = [cycles EXCEPT ![k] =
                        [mpc |-> "escalate",
                         mstate |-> [@.mstate EXCEPT !.escalated_complaints = escalated]]]
    /\ UNCHANGED <<callVars, cyclelog, now, complaints, escalations, mpc, mstate,
                   prevEscalated, pipeVars>>

\* node "escalate" of cycle k
EscalateComplaintsOf(k) ==
    /\ cycles[k].mpc = "escalate"
    /\ \E results \in [1..Len(cycles[k].mstate.escalated_complaints) -> EscalateResults] :
          LET store == EscalateAll(cycles[k].mstate.escalated_complaints, results,
                                   complaints, escalations)
          IN  /\ complaints' = store.complaints
              /\ escalations' = store.escalations
    /\ cycles' = [cycles EXCEPT ![k].mpc = "notify"]
    /\ UNCHANGED <<callVars, cyclelog, now, mpc, mstate, prevEscalated, pipeVars>>

\* node "notify" of cycle k, then END
NotifyCitizensOf(k) ==
    /\ cycles[k].mpc = "notify"
    /\ cycles' = [cycles EXCEPT ![k].mpc = "END"]
    /\ UNCHANGED <<callVars, cyclelog, now, complaints, escalations, mpc, mstate,
                   prevEscalated, pipeVars>>

----------------------------------------------------------------------------
(* One monitoring cycle on its own, keeping a log of what each complaint   *)
(* met in each loop.                                                       *)

\* no complaint whose mail is followed
NoMail == [citizen_email |-> FALSE, sla_breach |-> 0]

NoLog == [stage |-> "none"]

\* the answers of the decision service the logged cycle draws from: a
\* failure, no escalation, and an escalation to the first level
LoggedOutcomes ==
    {o \in DecisionOutcomes : o.escalation_level \in {"none", "level_1"}}

MonitorComplaintsLogged ==
    \E breach_ok, stale_ok \in BOOLEAN :
    \E breaching \in Orderings(IF breach_ok THEN BreachingSla ELSE {}) :
        /\ MonitorComplaintsWith(breaching, stale_ok)
        /\ cyclelog' = NoLog

CheckEscalationsLogged ==
    \E outcomes \in [1..Len(AllComplaints) -> LoggedOutcomes] :
        /\ CheckEscalationsWith(outcomes)
        /\ cyclelog' = [stage |-> "checked",
                        all_complaints |-> AllComplaints,
                        outcomes |-> outcomes,
                        decided |-> {i \in DOMAIN AllComplaints :
                                        DecisionInvoked(AllComplaints[i], outcomes[i])},
                        escalated_complaints |-> mstate'.escalated_complaints]
        /\ UNCHANGED mailbox

EscalateComplaintsLogged ==
    \E results \in [1..Len(mstate.escalated_complaints) -> EscalateResults] :
        /\ EscalateComplaintsWith(results)
        /\ cyclelog' = [stage |-> "escalated",
                        all_complaints |-> cyclelog.all_complaints,
                        outcomes |-> cyclelog.outcomes,
                        escalated_complaints |-> cyclelog.escalated_complaints,
                        results |-> results]

NotifyCitizensLogged ==
    \E sent \in [1..Len(mstate.escalated_complaints) -> NotifyResults] :
        /\ mpc = "notify"
        /\ mpc' = "monitor"
        /\ mstate' = InitialMonitoringState
        /\ cyclelog' = [stage |-> "notified",
                        all_complaints |-> cyclelog.all_complaints,
                        outcomes |-> cyclelog.outcomes,
                        escalated_complaints |-> cyclelog.escalated_complaints,
                        results |-> cyclelog.results,
                        sent |-> sent,
                        notifications_sent |-> NotifyAll(mstate.escalated_complaints, sent)]
        /\ UNCHANGED <<callVars, cycles, now, complaints, escalations, prevEscalated, pipeVars>>

\* the two scans of a cycle, keeping a log of whether each scan was answered
\* and of what the follow-up scan selected
MonitorComplaintsScanned ==
    \E breach_ok, stale_ok \in BOOLEAN :
    \E breaching \in Orderings(IF breach_ok THEN BreachingSla ELSE {}) :
        /\ MonitorComplaintsWith(breaching, stale_ok)
        /\ cyclelog' = [stage |-> "monitored", breach_ok |-> breach_ok,
                        stale_ok |-> stale_ok]

FollowupStaleScanned ==
    \E find_ok \in BOOLEAN :
    LET selected == IF find_ok THEN FollowupStale(FollowupDays) ELSE {}
    IN  \E stamped \in SUBSET selected :
           /\ FollowupStaleWith(selected, stamped)
           /\ cyclelog' = [stage |-> "followed_up", find_ok |-> find_ok,
                           selected |-> selected]

\* the SLA-breach notifications counted in the model
MaxNotifications == 2

\* _check_escalations, counting the SLA-breach notifications that
\* check_complaint_status sends on the way; an iteration that fails does so
\* before the status check (nothing is sent) or after it (positions in late)
CheckEscalationsMailing ==
    \E outcomes \in [1..Len(AllComplaints) -> LoggedOutcomes] :
    \E late \in SUBSET {i \in DOMAIN AllComplaints : outcomes[i].failed} :
        /\ CheckEscalationsWith(outcomes)
        /\ LET sent == {i \in DOMAIN AllComplaints :
                          /\ ~outcomes[i].failed \/ i \in late
                          /\ SlaBreachNotification(AllComplaints[i], mailbox.citizen_email)}
           IN  /\ mailbox.sla_breach + Cardinality(sent) <= MaxNotifications
               /\ mailbox' = [mailbox EXCEPT !.sla_breach = @ + Cardinality(sent)]
        /\ UNCHANGED cyclelog

----------------------------------------------------------------------------
(* AdminController.update_complaint_status:                                *)
(* src/src/controllers/admin_controller.py                                 *)

\* a status outside valid_statuses is rejected before anything is written
UpdateComplaintStatus(c, new_status) ==
    /\ new_status \in ComplaintStatus
    /\ complaints' = [complaints EXCEPT ![c] = UpdateComplaint(@, [status |-> new_status])]
    /\ prevEscalated' = {}
    /\ UNCHANGED <<agentVars, now, escalations, mpc, mstate, pipeVars>>

----------------------------------------------------------------------------
(* ForumController._boost_urgency_from_votes:                              *)
(* src/src/controllers/forum_controller.py                                 *)

UpvoteCounts == {0, 10, 20, 50}

BoostedUrgencyByCountAlone(current_urgency, upvote_count) ==
    IF upvote_count >= 50 THEN "urgent"
    ELSE IF upvote_count >= 20 THEN "high"
    ELSE IF upvote_count >= 10 THEN "medium"
    ELSE "no_boost"

\* the urgency the boost writes, or "no_boost" when it returns early
BoostedUrgency(current_urgency, upvote_count) ==
    LET current_level == urgency_map(current_urgency)
    IN  IF upvote_count >= 50 /\ current_level < 4 THEN "urgent"
        ELSE IF upvote_count >= 20 /\ current_level < 3 THEN "high"
        ELSE IF upvote_count >= 10 /\ current_level < 2 THEN "medium"
        ELSE "no_boost"

BoostUrgencyFromVotes(c, upvote_count) ==
    /\ BoostedUrgency(complaints[c].urgency, upvote_count) # "no_boost"
    /\ complaints' = [complaints EXCEPT ![c] =
            TableUpdate(@, [urgency |-> BoostedUrgency(complaints[c].urgency, upvote_count),
                            updated_at |-> now])]
    /\ prevEscalated' = {}
    /\ UNCHANGED <<agentVars, now, escalations, mpc, mstate, pipeVars>>

----------------------------------------------------------------------------
(* The complaint workflow: src/src/workflows/complaint_workflow.py          *)
(*                                                                          *)
(* A description is the set of the phrases of Phrases it contains; every    *)
(* keyword list of the code is the set of those phrases that contain one of *)
(* its keywords as a substring ("fire" contains the police keyword "fir",   *)
(* "heart attack" the police and crime keyword "attack").  Branches of the  *)
(* code that only keywords outside Phrases can take are left out.           *)

Phrases ==
    {"fire", "heart attack", "accident", "gas leak", "robbery", "garbage",
     "furious", "frustrated"}

\* how many of the phrases one description contains
MaxPhrases == 2

Descriptions == {d \in SUBSET Phrases : Cardinality(d) <= MaxPhrases}

\* location.city of the input
Cities == {"", "mumbai", "pune", "nagpur"}

\* any(keyword in description_lower for keyword in keywords)
Has(description, keywords) == description \cap keywords # {}

\* INDIAN_DEPARTMENTS (src/src/config/india_data.py), the keys the model uses
Departments ==
    {"municipal", "bmc", "pune_municipal", "nagpur_municipal", "fire", "maharashtra_health",
     "maharashtra_police", "mumbai_police"}

\* the municipal bodies of the police safety check of _classify_with_llm
MunicipalDepartments == {"municipal", "bmc", "pune_municipal", "nagpur_municipal"}

PoliceDepartments == {"maharashtra_police", "mumbai_police"}

valid_categories == {"sanitation", "health", "safety", "other"}

\* the keyword lists of ClassificationAgent._classify_with_llm
cls_fire_keywords == {"fire"}

cls_medical_keywords == {"heart attack"}

cls_accident_keywords == {"accident"}

cls_gas_keywords == {"gas leak"}

cls_police_keywords == {"fire", "heart attack", "robbery"}

cls_garbage_keywords == {"garbage"}

\* the police department of a city
PoliceOf(city) == IF city = "mumbai" THEN "mumbai_police" ELSE "maharashtra_police"

\* the municipal corporation of a city
MunicipalOf(city) ==
    IF city = "mumbai" THEN "bmc"
    ELSE IF city = "pune" THEN "pune_municipal"
    ELSE IF city = "nagpur" THEN "nagpur_municipal"
    ELSE "municipal"

\* what the classification service may answer, once parsed: urgency, category
\* and department, each possibly outside its closed set ("bogus")
ParsedClassifications ==
    [urgency : UrgencyLevel \cup {"bogus"},
     category : {"other", "bogus"},
     department : {"municipal", "fire", "maharashtra_police", "bogus"}]

\* keyword routing of _classify_with_llm, before the service is asked: the
\* first branch whose keywords the description has; "" stands for None
KeywordRouting(description, city) ==
    IF Has(description, cls_fire_keywords)
    THEN [department |-> "fire", urgency |-> "urgent", category |-> "safety"]
    ELSE IF Has(description, cls_medical_keywords)
    THEN [department |-> "maharashtra_health", urgency |-> "urgent", category |-> "health"]
    ELSE IF Has(description, cls_accident_keywords)
    THEN [department |-> PoliceOf(city), urgency |-> "urgent", category |-> "safety"]
    ELSE IF Has(description, cls_gas_keywords)
    THEN [department |-> "fire", urgency |-> "urgent", category |-> "safety"]
    ELSE IF Has(description, cls_police_keywords)
    THEN [department |-> PoliceOf(city), urgency |-> "high", category |-> "safety"]
    ELSE IF Has(description, cls_garbage_keywords)
    THEN [department |-> MunicipalOf(city), urgency |-> "", category |-> "sanitation"]
    ELSE [department |-> "", urgency |-> "", category |-> ""]

\* _classify_with_llm once the answer of the service is parsed
ClassifyWithLlm(description, city, parsed) ==
    LET kw == KeywordRouting(description, city)
        urgency0 == IF kw.urgency = "" THEN parsed.urgency ELSE kw.urgency
        urgency1 == IF urgency0 \in UrgencyLevel THEN urgency0 ELSE "medium"
        category0 == IF kw.category = "" THEN parsed.category ELSE kw.category
        category1 == IF category0 \in valid_categories THEN category0 ELSE "other"
        \* the department of the service, municipal overridden by a police keyword
        department0 ==
            IF kw.department # "" THEN kw.department
            ELSE IF parsed.department = "municipal" /\ Has(description, cls_police_keywords)
            THEN PoliceOf(city)
            ELSE parsed.department
        \* the safety check: a police issue never stays with a municipal body
        forced == Has(description, cls_police_keywords) /\ department0 \in MunicipalDepartments
        department1 == IF forced THEN PoliceOf(city) ELSE department0
        category2 == IF forced THEN "safety" ELSE category1
        urgency2 == IF forced /\ urgency1 \notin {"urgent", "high"} THEN "high" ELSE urgency1
        \* municipal becomes the corporation of the city, then the closed set
        department2 == IF department1 = "municipal" THEN MunicipalOf(city) ELSE department1
        department3 == IF department2 \in Departments THEN department2 ELSE "municipal"
    IN  [urgency |-> urgency2, structured_category |-> category2, department |-> department3]

\* the fire double-check of the classify node, on the result of the agent
FireDoubleCheck(description, result) ==
    IF ~Has(description, cls_fire_keywords) THEN result
    ELSE IF result.department # "fire"
    THEN [urgency |-> "urgent", structured_category |-> "safety", department |-> "fire"]
    ELSE [result EXCEPT !.urgency = "urgent"]

\* what the understanding and routing services may answer, once parsed
ParsedUnderstandings ==
    [urgency : {"low", "medium", "urgent", "bogus"}, category : {"other", "bogus"}]

ParsedRoutings == {"municipal", "fire", "bogus"}

\* ComplaintUnderstandingAgent._understand_with_llm
UnderstandWithLlm(parsed) ==
    [urgency |-> IF parsed.urgency \in UrgencyLevel THEN parsed.urgency ELSE "medium",
     structured_category |->
        IF parsed.category \in valid_categories THEN parsed.category ELSE "other"]

RouteWithLlmUnvalidated(department) == department

\* DepartmentRoutingAgent._route_with_llm
RouteWithLlm(department) ==
    IF department \in Departments THEN department ELSE "municipal"

\* the last resort of the classify node
UltimateFallback ==
    [urgency |-> "medium", structured_category |-> "other", department |-> "municipal"]

----------------------------------------------------------------------------
(* SentimentAgent (src/src/agents/sentiment.py): the two fields of its      *)
(* result that the workflow reads to adjust the urgency                     *)

valid_emotions == {"calm", "concerned", "frustrated", "angry", "urgent"}

valid_priorities == {"normal", "high", "urgent"}

ParsedSentiments ==
    [emotion_level : {"calm", "frustrated", "angry", "urgent", "bogus"},
     priority_recommendation : {"normal", "high", "bogus"}]

NeutralSentiment == [emotion_level |-> "calm", priority_recommendation |-> "normal"]

\* per description: the parsed answer, or a failure of the call or of the parse
SentimentOutcomes ==
    {[failed |-> FALSE, parsed |-> p] : p \in ParsedSentiments}
    \cup {[failed |-> TRUE, parsed |-> NeutralSentiment]}

\* _analyze_sentiment_with_llm: both fields are validated against closed sets
AnalyzeSentimentWithLlm(parsed) ==
    [emotion_level |->
        IF parsed.emotion_level \in valid_emotions THEN parsed.emotion_level ELSE "calm",
     priority_recommendation |->
        IF parsed.priority_recommendation \in valid_priorities
        THEN parsed.priority_recommendation ELSE "normal"]

critical_anger == {"furious"}

high_frustration == {"frustrated"}

\* _apply_keyword_boosts: the anger overlay, then the frustration overlay
ApplyKeywordBoosts(description, result) ==
    LET r1 == IF Has(description, critical_anger)
              THEN [emotion_level |-> "angry", priority_recommendation |-> "urgent"]
              ELSE result
    IN  IF Has(description, high_frustration)
        THEN [emotion_level |->
                IF r1.emotion_level \in {"angry", "urgent"}
                THEN r1.emotion_level ELSE "frustrated",
              priority_recommendation |->
                IF r1.priority_recommendation = "normal"
                THEN "high" ELSE r1.priority_recommendation]
        ELSE r1

\* SentimentAgent.process: neutral when the service fails
SentimentProcess(description, outcome) ==
    IF outcome.failed THEN NeutralSentiment
    ELSE ApplyKeywordBoosts(description, AnalyzeSentimentWithLlm(outcome.parsed))

\* sentiment_score and urgency_boost are counted in tenths
urgency_language == {"immediately"}

positive_indicators == {"please"}

\* the phrases the four overlays of _apply_keyword_boosts look for
SentimentPhrases ==
    critical_anger \cup high_frustration \cup urgency_language \cup positive_indicators

\* what the service's answer parses to: the numbers may lie outside their
\* ranges, the labels outside their sets, and frustration_indicators may be
\* something other than a list
ScoredSentiments ==
    [sentiment_score : {0 - 15, 0 - 10, 0 - 8, 0 - 5, 0 - 3, 0, 5},
     emotion_level : {"calm", "frustrated", "angry", "urgent", "bogus"},
     urgency_boost : {0 - 1, 0, 4, 7, 12},
     priority_recommendation : {"normal", "high", "urgent", "bogus"},
     frustration_indicators : {"list", "null"}]

NeutralScoredSentiment ==
    [sentiment_score |-> 0, emotion_level |-> "calm", urgency_boost |-> 0,
     priority_recommendation |-> "normal", frustration_indicators |-> "list"]

ScoredSentimentOutcomes ==
    {[failed |-> FALSE, parsed |-> p] : p \in ScoredSentiments}
    \cup {[failed |-> TRUE, parsed |-> NeutralScoredSentiment]}

Min(a, b) == IF a <= b THEN a ELSE b

Max(a, b) == IF a >= b THEN a ELSE b

\* _analyze_sentiment_with_llm with every field: the numbers are clamped,
\* the labels validated, frustration_indicators passed through
AnalyzeScoredSentimentWithLlm(parsed) ==
    [sentiment_score |-> Max(0 - 10, Min(10, parsed.sentiment_score)),
     emotion_level |-> AnalyzeSentimentWithLlm(parsed).emotion_level,
     urgency_boost |-> Max(0, Min(10, parsed.urgency_boost)),
     priority_recommendation |-> AnalyzeSentimentWithLlm(parsed).priority_recommendation,
     frustration_indicators |-> parsed.frustration_indicators]

\* the anger overlay of _apply_keyword_boosts
AngerOverlay(description, result) ==
    IF Has(description, critical_anger)
    THEN [result EXCEPT !.emotion_level = "angry",
                        !.sentiment_score = Min(0 - 8, @),
                        !.urgency_boost = Max(7, @),
                        !.priority_recommendation = "urgent"]
    ELSE result

\* the frustration overlay
FrustrationOverlay(description, result) ==
    IF Has(description, high_frustration)
    THEN [result EXCEPT !.emotion_level = IF @ \in {"angry", "urgent"} THEN @ ELSE "frustrated",
                        !.sentiment_score = Min(0 - 5, @),
                        !.urgency_boost = Max(4, @),
                        !.priority_recommendation = IF @ = "normal" THEN "high" ELSE @]
    ELSE result

\* the urgency-language overlay
UrgencyLanguageOverlay(description, result) ==
    IF Has(description, urgency_language)
    THEN [result EXCEPT !.urgency_boost = Max(5, @),
                        !.priority_recommendation = IF @ # "urgent" THEN "high" ELSE @]
    ELSE result

\* the positive-sentiment overlay: a negative score is raised to -0.3
PositiveOverlay(description, result) ==
    IF Has(description, positive_indicators) /\ result.sentiment_score < 0
    THEN [result EXCEPT !.sentiment_score = Max(0 - 3, @)]
    ELSE result

\* _apply_keyword_boosts with every field: the four overlays in the code's order
ApplyScoredKeywordBoosts(description, result) ==
    PositiveOverlay(description,
        UrgencyLanguageOverlay(description,
            FrustrationOverlay(description,
                AngerOverlay(description, result))))

\* the anger overlay appends to frustration_indicators, which raises when the
\* service sent something that is not a list
KeywordBoostsRaise(description, result) ==
    Has(description, critical_anger) /\ result.frustration_indicators # "list"

\* SentimentAgent.process with every field: an empty description and every
\* exception give the neutral result
ScoredSentimentProcess(description, outcome) ==
    IF description = {} \/ outcome.failed THEN NeutralScoredSentiment
    ELSE IF KeywordBoostsRaise(description, AnalyzeScoredSentimentWithLlm(outcome.parsed))
    THEN NeutralScoredSentiment
    ELSE ApplyScoredKeywordBoosts(description, AnalyzeScoredSentimentWithLlm(outcome.parsed))

\* no call of the sentiment agent is being looked at
NoAnalysis == [stage |-> "idle"]

TwoLevelsUp(urgency) ==
    IF urgency = "low" THEN "high"
    ELSE IF urgency = "medium" THEN "urgent"
    ELSE urgency

\* low becomes medium, medium becomes high
OneLevelUp(urgency) ==
    IF urgency = "low" THEN "medium"
    ELSE IF urgency = "medium" THEN "high"
    ELSE urgency

FrustratedSetsHigh(urgency, emotion_level, priority_recommendation) ==
    IF emotion_level \in {"angry", "urgent"} THEN "urgent"
    ELSE IF emotion_level = "frustrated" THEN "high"
    ELSE IF priority_recommendation = "high" /\ urgency_map(urgency) < 3
    THEN OneLevelUp(urgency)
    ELSE urgency

\* the urgency the analyze_sentiment node leaves in the state
AdjustedUrgency(urgency, emotion_level, priority_recommendation) ==
    LET current_urgency_level == urgency_map(urgency)
    IN  IF emotion_level \in {"angry", "urgent"}
        THEN (IF current_urgency_level < 4 THEN "urgent" ELSE urgency)
        ELSE IF emotion_level = "frustrated"
        THEN (IF current_urgency_level < 3 THEN OneLevelUp(urgency) ELSE urgency)
        ELSE IF priority_recommendation = "high" /\ current_urgency_level < 3
        THEN OneLevelUp(urgency)
        ELSE urgency

----------------------------------------------------------------------------
(* SLAAssignmentAgent (src/src/agents/sla_assignment.py).  sla_hours is     *)
(* counted in quarter hours: 1 is 0.25 h, 2 is 0.5 h, Hours(h) is h hours.  *)

\* if x > hi: x = hi / elif x < lo: x = lo
Clamp(x, lo, hi) == IF x > hi THEN hi ELSE IF x < lo THEN lo ELSE x

sla_fire_keywords == {"fire"}

sla_medical_keywords == {"heart attack"}

sla_accident_keywords == {"accident"}

sla_gas_keywords == {"gas leak"}

sla_crime_keywords == {"heart attack", "robbery"}

sla_garbage_keywords == {"garbage"}

\* the departments the garbage band of the medium branch applies to
sla_garbage_departments == {"bmc", "pune_municipal", "municipal"}

\* a phrase no description of Descriptions has: only the SLA stage on its own
\* is given it
sla_collapse_keywords == {"building collapse"}

\* default_sla.get(urgency, 72.0)
DefaultSla(urgency) ==
    CASE urgency = "urgent" -> 2
      [] urgency = "high" -> Hours(6)
      [] urgency = "low" -> Hours(168)
      [] OTHER -> Hours(72)

\* the values the SLA service may put in "sla_hours": below every band, on
\* and between the edges of the bands, above every band
SlaSuggestions ==
    {0, 1, 3, Hours(1), Hours(2), Hours(3), Hours(12), Hours(24), Hours(72),
     Hours(100), Hours(168), Hours(336), Hours(400)}

\* per complaint: a number, no "sla_hours" key, or a failure (the call
\* raised, the answer held no JSON, or the value is not a finite number)
SlaOutcomes ==
    {[kind |-> "hours", sla_hours |-> h] : h \in SlaSuggestions}
    \cup {[kind |-> "absent", sla_hours |-> 0], [kind |-> "failed", sla_hours |-> 0]}

\* the urgent branch without its keyword bands
UrgentSlaCapOnly(description, department, sla_hours) ==
    IF sla_hours > Hours(2) THEN Hours(2) ELSE sla_hours

\* the urgent branch: the keyword bands in the code's order, then the cap
UrgentSla(description, department, sla_hours) ==
    LET h1 == IF Has(description, sla_fire_keywords) \/ department = "fire"
              THEN Clamp(sla_hours, 1, 2) ELSE sla_hours
        h2 == IF Has(description, sla_medical_keywords) \/ department = "maharashtra_health"
              THEN Clamp(h1, 1, 2) ELSE h1
        h3 == IF Has(description, sla_accident_keywords) /\ department \in PoliceDepartments
              THEN Clamp(h2, 2, Hours(1)) ELSE h2
        h4 == IF Has(description, sla_gas_keywords) THEN Clamp(h3, 1, 2) ELSE h3
        h5 == IF Has(description, sla_collapse_keywords)
              THEN Clamp(h4, 2, Hours(1)) ELSE h4
        h6 == IF Has(description, sla_crime_keywords) /\ department \in PoliceDepartments
              THEN Clamp(h5, 1, 2) ELSE h5
    IN  IF h6 > Hours(2) THEN Hours(2) ELSE h6

HighSla(sla_hours) == IF sla_hours > Hours(12) THEN Hours(12) ELSE sla_hours

MediumSla(description, department, sla_hours) ==
    LET h1 == IF Has(description, sla_garbage_keywords) /\ department \in sla_garbage_departments
              THEN Clamp(sla_hours, Hours(24), Hours(72)) ELSE sla_hours
    IN  Clamp(h1, Hours(24), Hours(168))

LowSla(sla_hours) == Clamp(sla_hours, Hours(168), Hours(336))

AssignSlaWithoutHardBounds(urgency, description, department, outcome) ==
    LET sla_hours == IF outcome.kind = "absent" THEN DefaultSla(urgency)
                     ELSE outcome.sla_hours
    IN  CASE urgency = "urgent" -> UrgentSla(description, department, sla_hours)
          [] urgency = "high" -> HighSla(sla_hours)
          [] urgency = "medium" -> MediumSla(description, department, sla_hours)
          [] urgency = "low" -> LowSla(sla_hours)
          [] OTHER -> sla_hours

\* _assign_sla_with_llm once the answer of the service is parsed
AssignSlaWithLlm(urgency, description, department, outcome) ==
    LET sla_hours == IF outcome.kind = "absent" THEN DefaultSla(urgency)
                     ELSE outcome.sla_hours
        banded == CASE urgency = "urgent" -> UrgentSla(description, department, sla_hours)
                    [] urgency = "high" -> HighSla(sla_hours)
                    [] urgency = "medium" -> MediumSla(description, department, sla_hours)
                    [] urgency = "low" -> LowSla(sla_hours)
                    [] OTHER -> sla_hours
    IN  Clamp(banded, 1, Hours(336))

\* the fallback of the assign_sla node when the agent raises
FallbackSla(urgency, description, department) ==
    IF Has(description, sla_fire_keywords) \/ department = "fire" THEN 2
    ELSE IF urgency = "urgent" THEN Hours(1)
    ELSE IF urgency = "high" THEN Hours(6)
    ELSE IF urgency = "medium" THEN Hours(72)
    ELSE Hours(168)

----------------------------------------------------------------------------
(* The nodes of the complaint workflow, in the order of _build_workflow:    *)
(* classify, analyze_sentiment, assign_sla, analyze_policy, persist, notify *)

NoTime == 0 - 1000

\* legal_sla of a policy answer that gives none
NoLegalSla == 0 - 1

\* run(): the initial ComplaintState of one submitted complaint
InitialComplaintState(description, city) ==
    [description |-> description,
     city |-> city,
     complaint_id |-> "",
     structured_category |-> "",
     urgency |-> "",
     department |-> "",
     emotion_level |-> "",
     priority_recommendation |-> "",
     sla_hours |-> 0,
     sla_deadline |-> NoTime,
     legal_sla_hours |-> NoLegalSla,
     policy_violation |-> FALSE,
     citizen_message |-> "",
     errors |-> << >>]

\* the classification service: a parsed answer, or a failure (the call raised
\* or the answer held no JSON)
ClassificationOutcomes ==
    {[failed |-> FALSE, parsed |-> p] : p \in ParsedClassifications}
    \cup {[failed |-> TRUE,
           parsed |-> [urgency |-> "bogus", category |-> "bogus", department |-> "bogus"]]}

\* the two fallback services: both answer ("none" failed), the understanding
\* service fails (the routing service is then not asked), or the understanding
\* service answers and the routing service fails
FallbackOutcomes ==
    {[failed |-> "none", understanding |-> u, routing |-> r]
        : u \in ParsedUnderstandings, r \in ParsedRoutings}
    \cup {[failed |-> "understanding",
           understanding |-> [urgency |-> "bogus", category |-> "bogus"],
           routing |-> "bogus"]}
    \cup {[failed |-> "routing", understanding |-> u, routing |-> "bogus"]
             : u \in ParsedUnderstandings}

\* what the classify node leaves in urgency, structured_category, department
ClassifyResult(description, city, outcome, fallback) ==
    IF ~outcome.failed
    THEN FireDoubleCheck(description, ClassifyWithLlm(description, city, outcome.parsed))
    ELSE IF fallback.failed = "none"
    THEN [urgency |-> UnderstandWithLlm(fallback.understanding).urgency,
          structured_category |->
              UnderstandWithLlm(fallback.understanding).structured_category,
          department |-> RouteWithLlm(fallback.routing)]
    ELSE UltimateFallback

\* node "classify": _classify_complaint
ClassifyComplaint ==
    /\ pc = "classify"
    /\ \E outcome \in ClassificationOutcomes, fallback \in FallbackOutcomes :
          LET result == ClassifyResult(state.description, state.city, outcome, fallback)
          IN  /\ state' = [state EXCEPT
                    !.urgency = result.urgency,
                    !.structured_category = result.structured_category,
                    !.department = result.department,
                    !.emotion_level = IF outcome.failed THEN @ ELSE "calm",
                    !.priority_recommendation = IF outcome.failed THEN @ ELSE "normal",
                    !.errors = IF outcome.failed
                               THEN Append(@, "Classification failed") ELSE @]
              /\ classified' = result.urgency
              /\ failures' =
                    IF ~outcome.failed THEN failures
                    ELSE failures \cup {"classify"}
                            \cup (IF fallback.failed = "none" THEN {} ELSE {fallback.failed})
    /\ pc' = "analyze_sentiment"
    /\ UNCHANGED <<agentVars, now, complaints, escalations, mpc, mstate, prevEscalated, response>>

\* node "analyze_sentiment": _analyze_sentiment
AnalyzeSentiment ==
    /\ pc = "analyze_sentiment"
    /\ \E outcome \in SentimentOutcomes :
          LET sentiment_result == SentimentProcess(state.description, outcome)
          IN  /\ state' = [state EXCEPT
                    !.emotion_level = sentiment_result.emotion_level,
                    !.priority_recommendation = sentiment_result.priority_recommendation,
                    !.urgency = AdjustedUrgency(@, sentiment_result.emotion_level,
                                                sentiment_result.priority_recommendation)]
              /\ failures' = IF outcome.failed
                             THEN failures \cup {"analyze_sentiment"} ELSE failures
    /\ pc' = "assign_sla"
    /\ UNCHANGED <<agentVars, now, complaints, escalations, mpc, mstate, prevEscalated, classified, response>>

\* the sla_hours the assign_sla node leaves in the state
AssignedSlaHours(urgency, description, department, outcome) ==
    IF outcome.kind = "failed"
    THEN FallbackSla(urgency, description, department)
    ELSE AssignSlaWithLlm(urgency, description, department, outcome)

\* no call of the SLA stage is being looked at
NoCall == [stage |-> "idle"]

\* the phrases the SLA stage on its own is given
SlaPhrases == Phrases \cup sla_collapse_keywords

\* the SLA stage on its own: _assign_sla on one complaint
AssignSlaCall ==
    /\ slacall.stage = "called"
    /\ slacall' = [slacall EXCEPT
          !.stage = "returned",
          !.sla_hours = AssignedSlaHours(slacall.urgency, slacall.description,
                                         slacall.department, slacall.outcome)]
    /\ UNCHANGED <<now, complaints, escalations, mpc, mstate, prevEscalated, pipeVars,
                   sentiment, cyclelog, cycles, mailbox>>

\* node "assign_sla": _assign_sla
AssignSla ==
    /\ pc = "assign_sla"
    /\ \E outcome \in SlaOutcomes :
          LET sla_hours == AssignedSlaHours(state.urgency, state.description,
                                            state.department, outcome)
          IN  /\ state' = [state EXCEPT
                    !.sla_hours = sla_hours,
                    !.sla_deadline = now + sla_hours,
                    !.errors = IF outcome.kind = "failed"
                               THEN Append(@, "SLA assignment failed") ELSE @]
              /\ failures' = IF outcome.kind = "failed"
                             THEN failures \cup {"assign_sla"} ELSE failures
    /\ pc' = "analyze_policy"
    /\ UNCHANGED <<agentVars, now, complaints, escalations, mpc, mstate, prevEscalated, classified, response>>

\* the policy service: a parsed answer with legal_sla.hours (NoLegalSla: none
\* given) and the flag it sets; a failure of the call or of the parse, which
\* the agent turns into its default answer; or an answer the node cannot use
\* (legal_sla is no object or its hours no number: the node's comparison raises)
PolicyOutcomes ==
    {[kind |-> "parsed", legal_sla_hours |-> h, policy_violation |-> v]
        : h \in {NoLegalSla, 0, Hours(1), Hours(72)}, v \in BOOLEAN}
    \cup {[kind |-> k, legal_sla_hours |-> NoLegalSla, policy_violation |-> FALSE]
             : k \in {"failed", "raised"}}

\* the policy_violation the analyze_policy node leaves in the state:
\* "if legal_sla_hours and assigned_sla_hours" is false for None and for 0
PolicyViolation(outcome, assigned_sla_hours) ==
    IF outcome.kind = "raised" THEN FALSE
    ELSE IF /\ outcome.legal_sla_hours # NoLegalSla
            /\ outcome.legal_sla_hours # 0
            /\ assigned_sla_hours # 0
            /\ assigned_sla_hours > outcome.legal_sla_hours
    THEN TRUE
    ELSE outcome.policy_violation

\* node "analyze_policy": _analyze_policy
AnalyzePolicy ==
    /\ pc = "analyze_policy"
    /\ \E outcome \in PolicyOutcomes :
          /\ state' = [state EXCEPT
                !.legal_sla_hours = outcome.legal_sla_hours,
                !.policy_violation = PolicyViolation(outcome, state.sla_hours),
                !.errors = IF outcome.kind = "raised"
                           THEN Append(@, "Policy analysis failed") ELSE @]
          /\ failures' = IF outcome.kind = "parsed"
                         THEN failures ELSE failures \cup {"analyze_policy"}
    /\ pc' = "persist"
    /\ UNCHANGED <<agentVars, now, complaints, escalations, mpc, mstate, prevEscalated, classified, response>>

\* complaint_data of _persist_complaint, as the row the store then holds
ComplaintData(st) ==
    [status |-> "open",
     escalation_level |-> "none",
     urgency |-> st.urgency,
     sla_deadline |-> st.sla_deadline,
     updated_at |-> now,
     last_followup_at |-> NoTime,
     responsible_department |-> st.department,
     sla_hours |-> st.sla_hours]

\* node "persist": _persist_complaint; the insert may raise
PersistComplaint ==
    /\ pc = "persist"
    /\ \E created \in BOOLEAN :
          /\ state' = [state EXCEPT
                !.complaint_id = "c1",
                !.errors = IF created THEN @ ELSE Append(@, "Persistence failed")]
          /\ failures' = IF created THEN failures ELSE failures \cup {"persist"}
          /\ complaints' =
                IF created
                THEN [c \in ComplaintIds \cup {"c1"} |->
                        IF c = "c1" THEN ComplaintData(state) ELSE complaints[c]]
                ELSE complaints
    /\ pc' = "notify"
    /\ UNCHANGED <<agentVars, now, escalations, mpc, mstate, prevEscalated, classified, response>>

\* node "notify": _notify_citizen, then END
NotifyCitizen ==
    /\ pc = "notify"
    /\ \E prepared \in BOOLEAN :
          /\ state' = [state EXCEPT
                !.citizen_message = IF prepared THEN "prepared" ELSE @,
                !.errors = IF prepared THEN @ ELSE Append(@, "Notification failed")]
          /\ failures' = IF prepared THEN failures ELSE failures \cup {"notify"}
    /\ pc' = "END"
    /\ UNCHANGED <<agentVars, now, complaints, escalations, mpc, mstate, prevEscalated, classified, response>>

----------------------------------------------------------------------------
(* ComplaintController.create_complaint, after workflow.run returned:       *)
(* src/src/controllers/complaint_controller.py                              *)

ResponseAlwaysSubmitted(complaint_id, found) == "submitted"

\* the answer to the caller: the complaint as the store holds it, or an error
Response(complaint_id, found) ==
    IF complaint_id = "" THEN "HTTP 500"
    ELSE IF ~found THEN "HTTP 404"
    ELSE "submitted"

\* db.get_complaint returns None when the row is missing or the read fails
CreateComplaint ==
    /\ pc = "END"
    /\ response = ""
    /\ \E read_ok \in BOOLEAN :
          response' = Response(state.complaint_id,
                               read_ok /\ state.complaint_id \in ComplaintIds)
    /\ UNCHANGED <<agentVars, now, complaints, escalations, mpc, mstate, prevEscalated,
                   pc, state, classified, failures>>

----------------------------------------------------------------------------
(* Time *)

Tick ==
    /\ now < MaxTime * Hours(12)
    /\ now' = now + Hours(12)
    /\ prevEscalated' = {}
    /\ UNCHANGED <<agentVars, complaints, escalations, mpc, mstate, pipeVars>>

----------------------------------------------------------------------------
(* The store before the first cycle: complaints the pipeline persisted      *)
(* (status open, escalation_level none) and that an admin may have moved    *)
(* to in_progress since; a complaint last touched more than StaleDays ago   *)
(* is one such.                                                              *)

LongAgo == 0 - InDays(StaleDays + 1)

InitialComplaints ==
    {[status |-> "open", escalation_level |-> "none", urgency |-> u,
      sla_deadline |-> 0, updated_at |-> 0, last_followup_at |-> NoTime]
        : u \in {"low", "high"}}
    \cup
    {[status |-> "in_progress", escalation_level |-> "none", urgency |-> u,
      sla_deadline |-> d, updated_at |-> LongAgo, last_followup_at |-> NoTime]
        : u \in {"low", "high"}, d \in {0, 0 - LongAgo}}

Init ==
    /\ now = 0
    /\ complaints \in [{"c1"} -> InitialComplaints]
    /\ escalations = << >>
    /\ mpc = "monitor"
    /\ mstate = InitialMonitoringState
    /\ prevEscalated = {}
    /\ pc = "END"
    /\ state = InitialComplaintState({}, "")
    /\ classified = ""
    /\ failures = {}
    /\ response = ""
    /\ sentiment = NoAnalysis
    /\ cyclelog = NoLog
    /\ slacall = NoCall
    /\ mailbox = NoMail
    /\ cycles = NoCycles

Next ==
    \/ MonitorComplaints
    \/ FollowupStaleNode
    \/ CheckEscalations
    \/ EscalateComplaints
    \/ NotifyCitizens
    \/ \E c \in ComplaintIds, new_status \in ComplaintStatus : UpdateComplaintStatus(c, new_status)
    \/ \E c \in ComplaintIds, upvote_count \in UpvoteCounts : BoostUrgencyFromVotes(c, upvote_count)
    \/ Tick

Spec == Init /\ [][Next]_vars

\* The complaint workflow alone: one submitted complaint runs through the
\* six nodes against an empty store.
InitPipe ==
    /\ now = 0
    /\ complaints = [c \in {} |-> 0]
    /\ escalations = << >>
    /\ mpc = "monitor"
    /\ mstate = InitialMonitoringState
    /\ prevEscalated = {}
    /\ pc = "classify"
    /\ \E description \in Descriptions, city \in Cities :
          state = InitialComplaintState(description, city)
    /\ classified = ""
    /\ failures = {}
    /\ response = ""
    /\ sentiment = NoAnalysis
    /\ cyclelog = NoLog
    /\ slacall = NoCall
    /\ mailbox = NoMail
    /\ cycles = NoCycles

NextPipe ==
    \/ ClassifyComplaint
    \/ AnalyzeSentiment
    \/ AssignSla
    \/ AnalyzePolicy
    \/ PersistComplaint
    \/ NotifyCitizen
    \/ CreateComplaint

SpecPipe == InitPipe /\ [][NextPipe]_vars

\* One monitoring cycle after another over two complaints of one urgency (no
\* node of the cycle reads it), at a time when the deadlines of the open ones
\* have or have not passed.
InitCycle ==
    /\ now \in {0, Hours(12)}
    /\ complaints \in [{"c1", "c2"} -> {c \in InitialComplaints : c.urgency = "high"}]
    /\ escalations = << >>
    /\ mpc = "monitor"
    /\ mstate = InitialMonitoringState
    /\ prevEscalated = {}
    /\ pc = "END"
    /\ state = InitialComplaintState({}, "")
    /\ classified = ""
    /\ failures = {}
    /\ response = ""
    /\ sentiment = NoAnalysis
    /\ cyclelog = NoLog
    /\ slacall = NoCall
    /\ mailbox = NoMail
    /\ cycles = NoCycles

NextCycle ==
    \/ MonitorComplaintsLogged
    \/ FollowupStaleNode
    \/ CheckEscalationsLogged
    \/ EscalateComplaintsLogged
    \/ NotifyCitizensLogged

SpecCycle == InitCycle /\ [][NextCycle]_vars

\* app.invoke runs the five nodes one after the other until END
FairSpecCycle == SpecCycle /\ WF_vars(NextCycle)

\* One monitoring cycle after another over one complaint last touched a whole
\* number of days ago, seen at midnight or at noon.
ScannedComplaints ==
    {[status |-> s, escalation_level |-> "none", urgency |-> "high",
      sla_deadline |-> d, updated_at |-> 0 - InDays(age), last_followup_at |-> NoTime]
        : s \in {"open", "in_progress"}, d \in {0, 0 - LongAgo},
          age \in 0..(StaleDays + 1)}

InitScan ==
    /\ now \in {0, Hours(12)}
    /\ complaints \in [{"c1"} -> ScannedComplaints]
    /\ escalations = << >>
    /\ mpc = "monitor"
    /\ mstate = InitialMonitoringState
    /\ prevEscalated = {}
    /\ pc = "END"
    /\ state = InitialComplaintState({}, "")
    /\ classified = ""
    /\ failures = {}
    /\ response = ""
    /\ sentiment = NoAnalysis
    /\ cyclelog = NoLog
    /\ slacall = NoCall
    /\ mailbox = NoMail
    /\ cycles = NoCycles

NextScan ==
    \/ MonitorComplaintsScanned
    \/ FollowupStaleScanned
    \/ CheckEscalationsLogged
    \/ EscalateComplaintsLogged
    \/ NotifyCitizensLogged

SpecScan == InitScan /\ [][NextScan]_vars

\* One monitoring cycle after another over one complaint, with or without a
\* citizen_email, at a time when the deadline of an open one has passed;
\* the admin may change its status in between.
InitMail ==
    /\ now = Hours(12)
    /\ complaints \in [{"c1"} -> {c \in InitialComplaints : c.urgency = "high"}]
    /\ escalations = << >>
    /\ mpc = "monitor"
    /\ mstate = InitialMonitoringState
    /\ prevEscalated = {}
    /\ pc = "END"
    /\ state = InitialComplaintState({}, "")
    /\ classified = ""
    /\ failures = {}
    /\ response = ""
    /\ sentiment = NoAnalysis
    /\ cyclelog = NoLog
    /\ slacall = NoCall
    /\ \E citizen_email \in BOOLEAN :
          mailbox = [citizen_email |-> citizen_email, sla_breach |-> 0]
    /\ cycles = NoCycles

NextMail ==
    \/ MonitorComplaints
    \/ FollowupStaleNode
    \/ CheckEscalationsMailing
    \/ EscalateComplaints
    \/ NotifyCitizens
    \/ \E c \in ComplaintIds, new_status \in ComplaintStatus : UpdateComplaintStatus(c, new_status)

SpecMail == InitMail /\ [][NextMail]_vars

\* Two cycles started at the same time over one open complaint whose
\* deadline has passed.
InitRace ==
    /\ now = Hours(12)
    /\ complaints \in [{"c1"} -> {c \in InitialComplaints : c.status = "open"}]
    /\ escalations = << >>
    /\ mpc = "monitor"
    /\ mstate = InitialMonitoringState
    /\ prevEscalated = {}
    /\ pc = "END"
    /\ state = InitialComplaintState({}, "")
    /\ classified = ""
    /\ failures = {}
    /\ response = ""
    /\ sentiment = NoAnalysis
    /\ cyclelog = NoLog
    /\ slacall = NoCall
    /\ mailbox = NoMail
    /\ cycles = [k \in ConcurrentCycles |->
                    [mpc |-> "monitor", mstate |-> InitialMonitoringState]]

NextRace ==
    \/ \E k \in ConcurrentCycles : MonitorComplaintsOf(k)
    \/ \E k \in ConcurrentCycles : FollowupStaleOf(k)
    \/ \E k \in ConcurrentCycles : CheckEscalationsOf(k)
    \/ \E k \in ConcurrentCycles : EscalateComplaintsOf(k)
    \/ \E k \in ConcurrentCycles : NotifyCitizensOf(k)

SpecRace == InitRace /\ [][NextRace]_vars

\* The SLA stage alone: one call on every urgency, department, description
\* over SlaPhrases and answer of the service.
InitSla ==
    /\ now = 0
    /\ complaints = [c \in {} |-> 0]
    /\ escalations = << >>
    /\ mpc = "monitor"
    /\ mstate = InitialMonitoringState
    /\ prevEscalated = {}
    /\ pc = "END"
    /\ state = InitialComplaintState({}, "")
    /\ classified = ""
    /\ failures = {}
    /\ response = ""
    /\ sentiment = NoAnalysis
    /\ mailbox = NoMail
    /\ cyclelog = NoLog
    /\ cycles = NoCycles
    /\ \E urgency \in UrgencyLevel, department \in Departments,
          description \in {d \in SUBSET SlaPhrases : Cardinality(d) <= MaxPhrases},
          outcome \in SlaOutcomes :
          slacall = [stage |-> "called", urgency |-> urgency, department |-> department,
                     description |-> description, outcome |-> outcome,
                     sla_hours |-> 0]

NextSla == AssignSlaCall

SpecSla == InitSla /\ [][NextSla]_vars

\* The sentiment agent alone: one call of SentimentAgent.process on every
\* description over SentimentPhrases and every answer of the service.
InitSentiment ==
    /\ now = 0
    /\ complaints = [c \in {} |-> 0]
    /\ escalations = << >>
    /\ mpc = "monitor"
    /\ mstate = InitialMonitoringState
    /\ prevEscalated = {}
    /\ pc = "END"
    /\ state = InitialComplaintState({}, "")
    /\ classified = ""
    /\ failures = {}
    /\ response = ""
    /\ cyclelog = NoLog
    /\ slacall = NoCall
    /\ mailbox = NoMail
    /\ cycles = NoCycles
    /\ \E description \in SUBSET SentimentPhrases, outcome \in ScoredSentimentOutcomes :
          sentiment = [stage |-> "called", description |-> description,
                       outcome |-> outcome]

\* SentimentAgent.process
Process ==
    /\ sentiment.stage = "called"
    /\ sentiment' =
          [stage |-> "returned",
           description |-> sentiment.description,
           outcome |-> sentiment.outcome,
           overlaid |-> /\ sentiment.description # {}
                        /\ ~sentiment.outcome.failed
                        /\ ~KeywordBoostsRaise(sentiment.description,
                                               sentiment.outcome.parsed),
           result |-> ScoredSentimentProcess(sentiment.description, sentiment.outcome)]
    /\ UNCHANGED <<now, complaints, escalations, mpc, mstate, prevEscalated, pipeVars,
                   cyclelog, cycles, slacall, mailbox>>

NextSentiment == Process

SpecSentiment == InitSentiment /\ [][NextSentiment]_vars

\* app.invoke runs the graph synchronously, node after node, until END: a
\* node that can run does run
FairSpecPipe == SpecPipe /\ WF_vars(NextPipe)

TypeOK ==
    /\ now \in 0..(MaxTime * Hours(12))
    /\ \A c \in ComplaintIds : complaints[c].status \in ComplaintStatus
    /\ \A c \in ComplaintIds : complaints[c].urgency \in UrgencyLevel
    /\ \A c \in ComplaintIds : complaints[c].escalation_level \in ProposedLevels
    /\ Len(escalations) <= MaxEscalations

----------------------------------------------------------------------------
(* Claims about the monitoring and escalation cycle *)

\* a step of the monitoring cycle (every node moves mpc; no other action does)
CycleStep == mpc' # mpc

NumEscalations(es, c) == Len(SelectSeq(es, LAMBDA e : e.complaint_id = c))

\* the level of the most recently created Escalation of c, "none" without one
LastEscalationLevel(c) ==
    IF EscalationsFor(c) = << >> THEN "none"
    ELSE EscalationsFor(c)[Len(EscalationsFor(c))].escalation_level

\* the escalation rules the decision prompt states, in hours overdue
\* (urgent: half of the smallest normal threshold)
EscalationThresholdHours(urgency) ==
    CASE urgency = "urgent" -> 12
      [] urgency = "high" -> 24
      [] urgency = "medium" -> 48
      [] OTHER -> 72

\* C1: for every complaint the levels of its successive Escalation records are
\* non-decreasing in none < level_1 < level_2 < level_3 < level_4, and every
\* recorded level is one of level_1..level_4, whatever the service proposes.
C1_EscalationLevelsNonDecreasing ==
    \A c \in ComplaintIds :
        LET s == EscalationsFor(c)
        IN  /\ \A i \in DOMAIN s :
                  s[i].escalation_level \in {"level_1", "level_2", "level_3", "level_4"}
            /\ \A i, j \in DOMAIN s :
                  i < j => LevelRank(s[i].escalation_level) <= LevelRank(s[j].escalation_level)

\* C2: a cycle run again with no time elapsed and no other change to the store
\* creates no Escalation record for a complaint the previous cycle escalated.
C2_SecondCycleIsNoOp ==
    [][\A c \in prevEscalated :
          NumEscalations(escalations', c) = NumEscalations(escalations, c)]_vars

\* C6: after every completed monitoring cycle each complaint's escalation_level
\* equals the level of its most recently created Escalation record ("none"
\* without one), also when the complaint update failed after the record was
\* created.
C6_LevelMirrorsLastEscalation ==
    mpc = "monitor" =>
        \A c \in ComplaintIds : complaints[c].escalation_level = LastEscalationLevel(c)

\* C7: once a complaint is persisted its sla_deadline never changes: no admin
\* status update, cycle escalation, follow-up stamp or community boost writes it.
C7_SlaDeadlineImmutable ==
    [][\A c \in ComplaintIds :
          complaints'[c].sla_deadline = complaints[c].sla_deadline]_vars

\* C7 witness: all four writers have written the complaint (follow-up stamp,
\* cycle escalation, community boost to urgent, admin update to resolved)
C7_AllWritersActed ==
    /\ complaints["c1"].last_followup_at # NoTime
    /\ complaints["c1"].escalation_level # "none"
    /\ complaints["c1"].urgency = "urgent"
    /\ complaints["c1"].status = "resolved"

StatusEdges ==
    {<<"open", "in_progress">>, <<"open", "escalated">>,
     <<"in_progress", "escalated">>, <<"escalated", "in_progress">>,
     <<"in_progress", "resolved">>, <<"resolved", "closed">>}

\* C8 as stated: a status changes only along open->in_progress, open->escalated,
\* in_progress->escalated, escalated->in_progress, in_progress->resolved,
\* resolved->closed.
C8_StatusFollowsEdges ==
    [][\A c \in ComplaintIds :
          complaints'[c].status # complaints[c].status
              => <<complaints[c].status, complaints'[c].status>> \in StatusEdges]_vars

\* C8 amended: a status is changed only by a monitoring cycle, which writes
\* escalated and nothing else, or by an admin status update, which may write any
\* of the five statuses over any of them (resolved and closed are not terminal).
C8_StatusWriters ==
    [][\A c \in ComplaintIds :
          complaints'[c].status # complaints[c].status
              => IF CycleStep
                 THEN mpc = "escalate" /\ complaints'[c].status = "escalated"
                 ELSE /\ complaints'[c].status \in ComplaintStatus
                      /\ complaints'[c].escalation_level = complaints[c].escalation_level
                      /\ escalations' = escalations]_vars

\* C8 witness: a complaint a cycle escalated and an admin then resolved
C8_EscalatedThenResolved ==
    /\ complaints["c1"].status = "resolved"
    /\ complaints["c1"].escalation_level = "level_1"
    /\ NumEscalations(escalations, "c1") = 1

\* C9: a complaint is recommended for escalation only if its hours overdue
\* exceed the threshold of its urgency (urgent 12h, high 24h, medium 48h, low 72h).
C9_EscalationOnlyAboveThreshold ==
    \A i \in DOMAIN mstate.escalated_complaints :
        LET c == mstate.escalated_complaints[i].complaint_id
        IN  CheckComplaintStatus(c).hours_overdue
                > Hours(EscalationThresholdHours(complaints[c].urgency))

\* C10: level_4 is terminal: for a complaint at level_4 a step of the cycle
\* creates no Escalation record and leaves its status and level unchanged.
C10_Level4Terminal ==
    [][\A c \in ComplaintIds :
          (CycleStep /\ complaints[c].escalation_level = "level_4")
              => /\ NumEscalations(escalations', c) = NumEscalations(escalations, c)
                 /\ complaints'[c].status = complaints[c].status
                 /\ complaints'[c].escalation_level = "level_4"]_vars

----------------------------------------------------------------------------
(* Claims about the complaint workflow *)

\* the nodes that follow a given node have run or are about to
AfterClassify == pc # "classify"

AfterAssignSla == pc \in {"analyze_policy", "persist", "notify", "END"}

\* low < medium < high < urgent
UrgencyRank(u) ==
    CASE u = "low" -> 1
      [] u = "medium" -> 2
      [] u = "high" -> 3
      [] u = "urgent" -> 4
      [] OTHER -> 0

\* C3: from the end of the classify node to the end of the workflow, the
\* urgency in the workflow state, and the urgency of the persisted complaint,
\* is at least the urgency the classify node set (low < medium < high < urgent).
C3_UrgencyNeverLowered ==
    AfterClassify =>
        /\ classified \in UrgencyLevel
        /\ UrgencyRank(state.urgency) >= UrgencyRank(classified)
        /\ \A c \in ComplaintIds :
              UrgencyRank(complaints[c].urgency) >= UrgencyRank(classified)

\* C3 witness: a workflow that ended and persisted a complaint whose urgency
\* the sentiment node raised from medium to high because of frustration
C3_RaisedBySentiment ==
    /\ pc = "END"
    /\ classified = "medium"
    /\ state.emotion_level = "frustrated"
    /\ state.urgency = "high"
    /\ "c1" \in ComplaintIds
    /\ complaints["c1"].urgency = "high"

\* C4: once classified, a description with a fire keyword has department fire
\* and urgency urgent, and one with a medical-emergency keyword (and no fire
\* keyword, which is scanned first) has the health department and urgency
\* urgent, whatever the classification service returned or failed to return.
C4_EmergencyKeywordsDecide ==
    AfterClassify =>
        /\ Has(state.description, cls_fire_keywords)
              => state.department = "fire" /\ state.urgency = "urgent"
        /\ (Has(state.description, cls_medical_keywords)
              /\ ~Has(state.description, cls_fire_keywords))
              => state.department = "maharashtra_health" /\ state.urgency = "urgent"

\* C5: once the SLA is assigned, by the agent or by the fallback of the node,
\* urgency urgent implies sla_hours <= 2 and urgency low implies
\* 168 <= sla_hours <= 336.
C5_SlaWithinUrgencyBand ==
    AfterAssignSla =>
        /\ state.urgency = "urgent" => state.sla_hours <= Hours(2)
        /\ state.urgency = "low"
              => state.sla_hours >= Hours(168) /\ state.sla_hours <= Hours(336)

\* the edges of the workflow graph
StageOrder ==
    {<<"classify", "analyze_sentiment">>, <<"analyze_sentiment", "assign_sla">>,
     <<"assign_sla", "analyze_policy">>, <<"analyze_policy", "persist">>,
     <<"persist", "notify">>, <<"notify", "END">>}

\* the entry a node appends to the error list when it catches a failure
ErrorOf(node) ==
    CASE node = "classify" -> "Classification failed"
      [] node = "analyze_sentiment" -> "Sentiment analysis failed"
      [] node = "assign_sla" -> "SLA assignment failed"
      [] node = "analyze_policy" -> "Policy analysis failed"
      [] node = "persist" -> "Persistence failed"
      [] OTHER -> "Notification failed"

Recorded(node) == \E i \in DOMAIN state.errors : state.errors[i] = ErrorOf(node)

\* C11: a run of the workflow moves through classify, analyze_sentiment,
\* assign_sla, analyze_policy, persist, notify in that order, one step each,
\* and ends; every failure of one of the first four nodes is in the error list
\* of the run, and the persist node is reached whatever failed before it.
C11_OrderedStagesRecordFailures ==
    /\ [][pc' # pc => <<pc, pc'>> \in StageOrder]_vars
    /\ [](\A node \in failures \cap {"classify", "analyze_sentiment",
                                     "assign_sla", "analyze_policy"} : Recorded(node))
    /\ <>(pc = "persist")
    /\ <>(pc = "END")

\* the part of C11 that holds: order, one step per node, persist and END reached
C11_OrderedStagesTerminate ==
    /\ [][pc' # pc => <<pc, pc'>> \in StageOrder]_vars
    /\ <>(pc = "persist")
    /\ <>(pc = "END")

C13_ClassifyFallbackChain ==
    AfterClassify =>
        /\ failures \cap {"understanding", "routing"} # {} => "classify" \in failures
        /\ failures \cap {"understanding", "routing"} # {}
              => /\ classified = "medium"
                 /\ state.structured_category = "other"
                 /\ state.department = "municipal"
        /\ classified \in UrgencyLevel
        /\ state.urgency \in UrgencyLevel
        /\ state.structured_category \in valid_categories
        /\ state.department \in Departments

\* C13 witness: the classification call failed and the stand-ins decided, with
\* an urgency and a department of their own
C13_StandInsDecided ==
    /\ pc = "analyze_sentiment"
    /\ failures = {"classify"}
    /\ classified = "low"
    /\ state.department = "fire"

\* the [min, max] window the layered clamp of the SLA agent enforces for given
\* inputs: every band is monotone in the suggestion, so the ends of the window
\* are what the lowest and the highest suggestion are clamped to
SlaWindow(urgency, description, department) ==
    [min |-> AssignSlaWithLlm(urgency, description, department,
                              [kind |-> "hours", sla_hours |-> 0]),
     max |-> AssignSlaWithLlm(urgency, description, department,
                              [kind |-> "hours", sla_hours |-> Hours(400)])]

\* C14: when the call of the SLA agent failed, the sla_hours the fallback of
\* the node computed lies within the window that the clamp of the agent
\* enforces for the same urgency, description and department.
C14_FallbackWithinClampWindow ==
    (AfterAssignSla /\ "assign_sla" \in failures) =>
        LET window == SlaWindow(state.urgency, state.description, state.department)
        IN  state.sla_hours >= window.min /\ state.sla_hours <= window.max

AfterAnalyzePolicy == pc \in {"persist", "notify", "END"}

\* C15: after the analyze_policy node, whenever the policy service returned
\* legal SLA hours and the assigned sla_hours exceed them, policy_violation is
\* true, whatever flag the service itself reported.
C15_ExceedingLegalSlaIsViolation ==
    (/\ AfterAnalyzePolicy
     /\ state.legal_sla_hours # NoLegalSla
     /\ state.sla_hours > state.legal_sla_hours)
        => state.policy_violation

\* the same for legal SLA hours other than 0
C15_ExceedingPositiveLegalSla ==
    (/\ AfterAnalyzePolicy
     /\ state.legal_sla_hours > 0
     /\ state.sla_hours > state.legal_sla_hours)
        => state.policy_violation

\* the coupling of urgency to the emotion level alone
UrgencyByEmotion(urgency, emotion_level) ==
    CASE emotion_level \in {"angry", "urgent"} -> "urgent"
      [] emotion_level = "frustrated" /\ urgency = "low" -> "medium"
      [] emotion_level = "frustrated" /\ urgency = "medium" -> "high"
      [] OTHER -> urgency

\* the coupling of urgency to the emotion level and, for an emotion level
\* that raises nothing, to the priority recommendation
UrgencyByEmotionAndPriority(urgency, emotion_level, priority_recommendation) ==
    CASE emotion_level \in {"angry", "urgent", "frustrated"}
            -> UrgencyByEmotion(urgency, emotion_level)
      [] priority_recommendation = "high" /\ urgency = "low" -> "medium"
      [] priority_recommendation = "high" /\ urgency = "medium" -> "high"
      [] OTHER -> urgency

\* C16 as stated: the urgency the analyze_sentiment node leaves is a function
\* of the urgency before it and the emotion level: angry or urgent gives
\* urgent; frustrated raises low to medium and medium to high; any other
\* emotion level leaves the urgency unchanged.
C16_UrgencyFollowsEmotion ==
    [][pc = "analyze_sentiment"
          => state'.urgency = UrgencyByEmotion(state.urgency, state'.emotion_level)]_vars

\* C16 amended: as above, except that under an emotion level other than angry,
\* urgent and frustrated a priority recommendation of high raises low to medium
\* and medium to high (one step, and only that recommendation).
C16_UrgencyFollowsEmotionAndPriority ==
    [][pc = "analyze_sentiment"
          => state'.urgency =
                UrgencyByEmotionAndPriority(state.urgency, state'.emotion_level,
                                            state'.priority_recommendation)]_vars

\* C16 witness: a calm complaint whose urgency the priority recommendation
\* raised from low to medium
C16_RaisedByPriority ==
    /\ pc = "assign_sla"
    /\ state.emotion_level = "calm"
    /\ state.priority_recommendation = "high"
    /\ classified = "low"
    /\ state.urgency = "medium"

\* C17: for a description containing an anger phrase, the result of the
\* sentiment agent after the keyword overlays have been applied has
\* emotion_level angry, sentiment_score <= -0.8, urgency_boost >= 0.7 and
\* priority_recommendation urgent, whatever the service returned and whatever
\* other overlay phrases the description contains.
C17_AngerOverlayDecides ==
    (/\ sentiment.stage = "returned"
     /\ sentiment.overlaid
     /\ Has(sentiment.description, critical_anger))
        => /\ sentiment.result.emotion_level = "angry"
           /\ sentiment.result.sentiment_score <= 0 - 8
           /\ sentiment.result.urgency_boost >= 7
           /\ sentiment.result.priority_recommendation = "urgent"

\* C17, what does hold: the three other fields are as stated, and the score is
\* at most -0.8 unless the description also contains a positive phrase, in
\* which case it is exactly -0.3
C17_AngerOverlayExceptScore ==
    (/\ sentiment.stage = "returned"
     /\ sentiment.overlaid
     /\ Has(sentiment.description, critical_anger))
        => /\ sentiment.result.emotion_level = "angry"
           /\ sentiment.result.urgency_boost >= 7
           /\ sentiment.result.priority_recommendation = "urgent"
           /\ IF Has(sentiment.description, positive_indicators)
              THEN sentiment.result.sentiment_score = 0 - 3
              ELSE sentiment.result.sentiment_score <= 0 - 8

\* the i-th complaint of the checked list met no failure, is past its
\* deadline, and the decision service asked for a level it is not at
WantsEscalation(i) ==
    LET c == cyclelog.all_complaints[i]
        o == cyclelog.outcomes[i]
    IN  /\ ~o.failed
        /\ now > complaints[c].sla_deadline
        /\ o.escalation_needed
        /\ o.escalation_level \notin {"none", complaints[c].escalation_level}

\* C18: within one monitoring cycle a failure while checking, escalating or
\* notifying one complaint does not stop the cycle: whatever the other
\* complaints of the breaching and stale lists meet, (1) every complaint whose
\* own check succeeds and asks for an escalation is queued for it, and nothing
\* else is; (2) every queued escalation whose own record write succeeds adds
\* its record, and one whose own complaint update succeeds too leaves the
\* complaint escalated; (3) every escalation whose own message is built is
\* listed in notifications_sent; (4) the cycle runs to its end.
C18_FailureIsolatedPerComplaint ==
    /\ [](cyclelog.stage = "checked"
            => /\ \A i \in DOMAIN cyclelog.all_complaints :
                     WantsEscalation(i)
                        => \E j \in DOMAIN mstate.escalated_complaints :
                              /\ mstate.escalated_complaints[j].complaint_id =
                                    cyclelog.all_complaints[i]
                              /\ mstate.escalated_complaints[j].escalation_level =
                                    cyclelog.outcomes[i].escalation_level
               /\ Len(mstate.escalated_complaints) =
                     Cardinality({i \in DOMAIN cyclelog.all_complaints : WantsEscalation(i)}))
    /\ [][mpc = "escalate"
            => Len(escalations') = Len(escalations) +
                  Cardinality({j \in DOMAIN cyclelog'.results :
                                  cyclelog'.results[j] # "create_failed"})]_vars
    /\ [](cyclelog.stage = "escalated"
            => \A j \in DOMAIN cyclelog.results :
                  LET it == cyclelog.escalated_complaints[j]
                  IN  /\ cyclelog.results[j] # "create_failed"
                            => \E k \in DOMAIN escalations :
                                  /\ escalations[k].complaint_id = it.complaint_id
                                  /\ escalations[k].escalation_level = it.escalation_level
                      /\ cyclelog.results[j] = "ok"
                            => complaints[it.complaint_id].status = "escalated")
    /\ [](cyclelog.stage = "notified"
            => /\ \A j \in DOMAIN cyclelog.sent :
                     cyclelog.sent[j] # "failed"
                        => \E k \in DOMAIN cyclelog.notifications_sent :
                              cyclelog.notifications_sent[k] =
                                 cyclelog.escalated_complaints[j].complaint_id
               /\ Len(cyclelog.notifications_sent) =
                     Cardinality({j \in DOMAIN cyclelog.sent : cyclelog.sent[j] # "failed"}))
    /\ (mpc = "check_escalation") ~> (cyclelog.stage = "notified")

\* C18 witness: a finished cycle in which the check of one complaint failed
\* and another complaint was escalated and its citizen notified
C18_OneFailedOtherEscalated ==
    /\ cyclelog.stage = "notified"
    /\ \E i, j \in DOMAIN cyclelog.all_complaints :
          /\ cyclelog.all_complaints[i] # cyclelog.all_complaints[j]
          /\ i < j
          /\ cyclelog.outcomes[i].failed
          /\ complaints[cyclelog.all_complaints[j]].status = "escalated"
          /\ \E k \in DOMAIN cyclelog.notifications_sent :
                cyclelog.notifications_sent[k] = cyclelog.all_complaints[j]
    /\ \E j \in DOMAIN cyclelog.results : cyclelog.results[j] = "create_failed"

\* C19: when two monitoring cycles run concurrently over the same breaching
\* complaint, no interleaving of their reads and writes leaves two Escalation
\* records with the same level for that complaint.
C19_NoTwoRecordsOfOneLevel ==
    \A i, j \in DOMAIN escalations :
        (i # j /\ escalations[i].complaint_id = escalations[j].complaint_id)
            => escalations[i].escalation_level # escalations[j].escalation_level

\* C20: a community-vote urgency boost never lowers a complaint's urgency:
\* for every upvote count and every current urgency, the urgency after
\* _boost_urgency_from_votes is greater than or equal to the urgency before it
\* in low < medium < high < urgent.
C20_BoostNeverLowersUrgency ==
    [][\A c \in ComplaintIds :
          /\ UrgencyRank(complaints'[c].urgency) >= UrgencyRank(complaints[c].urgency)
          /\ complaints'[c].urgency # complaints[c].urgency
                => \E upvote_count \in UpvoteCounts :
                      complaints'[c].urgency =
                         BoostedUrgency(complaints[c].urgency, upvote_count)]_vars

\* C20 witness: a complaint the votes have boosted to urgent (the store
\* starts with low and high complaints only)
C20_BoostedToUrgent ==
    \E c \in ComplaintIds : complaints[c].urgency = "urgent"

\* C21: for every complaint whose description matches a fire keyword, the
\* pipeline ends with category safety and sla_hours within [0.25, 0.5],
\* whatever the SLA service suggests and whether or not its call fails.
C21_FireEndsSafetyWithinHalfHour ==
    (pc = "END" /\ Has(state.description, cls_fire_keywords))
        => /\ state.structured_category = "safety"
           /\ state.sla_hours >= 1
           /\ state.sla_hours <= 2

\* C21, what does hold: the same when the classification service answered
C21_FireWhenClassified ==
    (/\ pc = "END"
     /\ Has(state.description, cls_fire_keywords)
     /\ "classify" \notin failures)
        => /\ state.structured_category = "safety"
           /\ state.department = "fire"
           /\ state.sla_hours >= 1
           /\ state.sla_hours <= 2

\* the SLA stage was called on an urgent complaint of a police department
\* whose description has an accident, collapse or crime phrase and no fire,
\* medical or gas phrase, and the service suggested a number
UrgentPoliceIncident ==
    /\ slacall.stage = "returned"
    /\ slacall.urgency = "urgent"
    /\ slacall.department \in PoliceDepartments
    /\ Has(slacall.description,
           sla_accident_keywords \cup sla_collapse_keywords \cup sla_crime_keywords)
    /\ ~Has(slacall.description,
            sla_fire_keywords \cup sla_medical_keywords \cup sla_gas_keywords)
    /\ slacall.outcome.kind = "hours"

\* C22 as stated: for an urgent complaint routed to a police department whose
\* description matches an accident, structural-collapse or crime keyword (and
\* no fire, medical or gas keyword), the SLA stage returns sla_hours within
\* [0.5, 1.0] for every value suggested by the service.
C22_PoliceIncidentWithinOneHour ==
    UrgentPoliceIncident => (slacall.sla_hours >= 2 /\ slacall.sla_hours <= Hours(1))

\* C22 amended: within [0.25, 0.5] when the description matches a crime
\* keyword (the crime band is applied last), within [0.5, 1.0] otherwise.
C22_CrimeBandIsHalfHour ==
    UrgentPoliceIncident
        => IF Has(slacall.description, sla_crime_keywords)
           THEN slacall.sla_hours >= 1 /\ slacall.sla_hours <= 2
           ELSE slacall.sla_hours >= 2 /\ slacall.sla_hours <= Hours(1)

\* C22 witness: a robbery for which the service suggested less than a quarter
\* of an hour and the stage returned exactly that quarter
C22_RobberyAtQuarterHour ==
    /\ UrgentPoliceIncident
    /\ slacall.description = {"robbery"}
    /\ slacall.outcome.sla_hours = 0
    /\ slacall.sla_hours = 1

\* the SLA stage has run on a complaint about garbage with none of the
\* emergency or police phrases, whose urgency it found medium; the
\* classification service and the SLA service both answered
MediumGarbageComplaint ==
    /\ AfterAssignSla
    /\ Has(state.description, cls_garbage_keywords)
    /\ ~Has(state.description,
            cls_fire_keywords \cup cls_medical_keywords \cup cls_accident_keywords
                \cup cls_gas_keywords \cup cls_police_keywords)
    /\ classified = "medium"
    /\ state.urgency = "medium"
    /\ failures \cap {"classify", "assign_sla"} = {}

\* C23: a medium-urgency complaint about garbage with no emergency keyword is
\* routed to the municipal department of its city (Mumbai: bmc, Pune:
\* pune_municipal, Nagpur: nagpur_municipal, otherwise municipal) and its
\* sla_hours is within [24, 72] for every value suggested by the service.
C23_GarbageToCityWithinThreeDays ==
    MediumGarbageComplaint
        => /\ state.department = MunicipalOf(state.city)
           /\ state.sla_hours >= Hours(24)
           /\ state.sla_hours <= Hours(72)

\* C23, what does hold: the routing, and the band outside Nagpur
C23_GarbageOutsideNagpur ==
    MediumGarbageComplaint
        => /\ state.department = MunicipalOf(state.city)
           /\ state.sla_hours >= Hours(24)
           /\ state.sla_hours <= (IF state.city = "nagpur" THEN Hours(168) ELSE Hours(72))

\* C24: every sla_hours value the pipeline stores lies within [0.25, 336]
\* hours, for every urgency, department, description and suggestion of the
\* service, on the path of the SLA stage and on the fallback path: in the
\* workflow state from the assign_sla node on, and in the persisted complaint.
C24_SlaHoursWithinHardBounds ==
    /\ AfterAssignSla => (state.sla_hours >= 1 /\ state.sla_hours <= Hours(336))
    /\ \A c \in ComplaintIds :
          complaints[c].sla_hours >= 1 /\ complaints[c].sla_hours <= Hours(336)

\* C24 witness: a persisted urgent complaint without emergency phrase for
\* which the service suggested 0 hours, stored at the lower hard bound
C24_StoredAtLowerBound ==
    /\ "assign_sla" \notin failures
    /\ state.urgency = "urgent"
    /\ ~Has(state.description,
            sla_fire_keywords \cup sla_medical_keywords \cup sla_accident_keywords
                \cup sla_gas_keywords \cup sla_crime_keywords)
    /\ state.department \notin {"fire", "maharashtra_health"}
    /\ \E c \in ComplaintIds : complaints[c].sla_hours = 1

\* the ids in a list of the monitoring state
ListedIn(list) == {list[i] : i \in DOMAIN list}

\* C25: in a monitoring cycle, every in_progress complaint whose updated_at
\* is more than 7 days before now is placed in the monitoring stale set, and
\* every in_progress complaint whose updated_at is more than 3 days before
\* now is selected for proactive follow-up (each whenever its scan of the
\* store is answered).
C25_StaleScansSelectByAge ==
    /\ [][(mpc = "monitor" /\ cyclelog'.stage = "monitored" /\ cyclelog'.stale_ok)
            => \A c \in ComplaintIds :
                  (/\ complaints[c].status = "in_progress"
                   /\ now - complaints[c].updated_at > InDays(StaleDays))
                     => c \in ListedIn(mstate'.stale_complaints)]_vars
    /\ [][(mpc = "followup" /\ cyclelog'.stage = "followed_up" /\ cyclelog'.find_ok)
            => \A c \in ComplaintIds :
                  (/\ complaints[c].status = "in_progress"
                   /\ now - complaints[c].updated_at > InDays(FollowupDays))
                     => c \in cyclelog'.selected]_vars

\* the follow-up half of C25 alone, and the monitoring half for complaints
\* untouched for eight days or more
C25_SelectedByWholeDays ==
    /\ [][(mpc = "monitor" /\ cyclelog'.stage = "monitored" /\ cyclelog'.stale_ok)
            => \A c \in ComplaintIds :
                  (/\ complaints[c].status = "in_progress"
                   /\ now - complaints[c].updated_at >= InDays(StaleDays + 1))
                     <=> c \in ListedIn(mstate'.stale_complaints)]_vars
    /\ [][(mpc = "followup" /\ cyclelog'.stage = "followed_up" /\ cyclelog'.find_ok)
            => \A c \in ComplaintIds :
                  (/\ complaints[c].status = "in_progress"
                   /\ now - complaints[c].updated_at > InDays(FollowupDays))
                     <=> c \in cyclelog'.selected]_vars

\* C26: in a monitoring cycle the citizen escalation notification for a
\* complaint is sent only after that complaint's Escalation record has been
\* persisted and its status and escalation_level have been advanced; none is
\* sent for a complaint whose Escalation record creation failed in that cycle.
C26_NotifiedOnlyAfterEscalationWritten ==
    cyclelog.stage = "notified"
        => \A j \in DOMAIN cyclelog.sent :
              cyclelog.sent[j] = "built"
                 => LET it == cyclelog.escalated_complaints[j]
                    IN  /\ cyclelog.results[j] = "ok"
                        /\ \E k \in DOMAIN escalations :
                              /\ escalations[k].complaint_id = it.complaint_id
                              /\ escalations[k].escalation_level = it.escalation_level
                        /\ complaints[it.complaint_id].status = "escalated"
                        /\ complaints[it.complaint_id].escalation_level = it.escalation_level

\* C27: a monitoring cycle never writes status = escalated onto, nor creates
\* an Escalation record for, a complaint whose status is resolved or closed
\* at the moment of the write, including when an admin status update
\* interleaves between the cycle's scan of the breaching set and its write.
C27_NoEscalationOfResolvedOrClosed ==
    [][(mpc = "escalate" /\ mpc' = "notify")
          => \A c \in ComplaintIds :
                complaints[c].status \in {"resolved", "closed"}
                   => /\ complaints'[c].status # "escalated"
                      /\ NumEscalations(escalations', c) = NumEscalations(escalations, c)]_vars

\* C28: in each monitoring cycle the escalation decision is invoked for every
\* complaint in the breaching set and for every complaint in the stale set,
\* including a stale in_progress complaint whose SLA deadline has not yet
\* passed (whenever the complaint's own iteration meets no failure).
C28_DecisionForEveryListedComplaint ==
    cyclelog.stage = "checked"
        => \A i \in DOMAIN cyclelog.all_complaints :
              ~cyclelog.outcomes[i].failed => i \in cyclelog.decided

\* the decision is invoked for exactly the listed complaints whose deadline
\* has passed
C28_DecisionForBreachingOnly ==
    cyclelog.stage = "checked"
        => \A i \in DOMAIN cyclelog.all_complaints :
              i \in cyclelog.decided
                 <=> /\ ~cyclelog.outcomes[i].failed
                     /\ now > complaints[cyclelog.all_complaints[i]].sla_deadline

\* C29: within a single monitoring cycle at most one escalation decision is
\* made and at most one Escalation record is created per complaint, even
\* when the complaint is in both the breaching set and the stale set of that
\* cycle.
C29_OneDecisionAndRecordPerCycle ==
    /\ cyclelog.stage = "checked"
          => \A c \in ComplaintIds :
                Cardinality({i \in cyclelog.decided : cyclelog.all_complaints[i] = c}) <= 1
    /\ cyclelog.stage = "escalated"
          => \A c \in ComplaintIds :
                Cardinality({j \in DOMAIN cyclelog.results :
                                /\ cyclelog.results[j] # "create_failed"
                                /\ cyclelog.escalated_complaints[j].complaint_id = c}) <= 1

\* C30: the SLA-breach notification for a complaint is sent only if it has
\* not already been sent: across any number of monitoring cycles and status
\* checks of a complaint that stays breaching, the citizen receives at most
\* one SLA-breach notification for it.
C30_AtMostOneBreachNotification ==
    mailbox.sla_breach <= 1

====
